---- MODULE Spec2Model ----
(***************************************************************************)
(* Beehive multimodal acoustic recording: the capture/buffer/save sketches *)
(* of acoustic_sensor_recording/win/src, and the cross_correlate extension *)
(* of beehub/python/src/signal.  The three .cpp files hold                 *)
(* several independent programs; each one modelled here has its own group  *)
(* of variables and its own specification (the second program of           *)
(* Event-Only.cpp, lines 102-219, is not modelled):                        *)
(*                                                                         *)
(*   SpecEvent   Event-Only.cpp   1-69    boost::circular_buffer, callback *)
(*   SpecCirc    Event-Only.cpp 238-313   circularBuffer, saveToFile       *)
(*   SpecDeque   Recording.cpp    1-124   deque + bufferMutex, checkLevel  *)
(*   SpecDequeFair                        the same, with fair threads      *)
(*   SpecPcm     Recording.cpp  137-207   deque, unlocked saveAudio        *)
(*   SpecPeriod  Period-Only.cpp  1-102   vector + mtx, periodic saveAudio *)
(*   SpecXcorr   BMAR_cross_correlation.c (beehub/python/src/signal)       *)
(*                                                                         *)
(* Sizes that the sources express in seconds of 192 kHz audio are scaled   *)
(* down to a handful of samples; every scaled constant keeps the order     *)
(* relations of the source (data window < deque capacity, and so on).      *)
(***************************************************************************)
EXTENDS Integers, Sequences, FiniteSets, TLC

\* ------------------------------------------------------------------------
\* Program constants (scaled) and model bounds
\* ------------------------------------------------------------------------
THRESHOLD == 27000
CHANNELS == 2
\* Recording.cpp (PortAudio program) and Event-Only.cpp: one sample a second
\* instead of 192000, a 5 s buffer instead of 400 s, 2 s + 2 s instead of 30 s + 30 s.
SAMPLE_RATE == 1
BUFFER_SECONDS == 5
SAVE_BEFORE_EVENT == 2
SAVE_AFTER_EVENT == 2

\* Period-Only.cpp: BUFFER_SIZE frames, buffer(BUFFER_SIZE * CHANNELS) samples.
PO_BUFFER_SIZE == 2

\* Event-Only.cpp, circular-buffer program: circularBuffer(BUFFER_SIZE) samples.
BUFFER_SIZE == 4

\* Recording.cpp, RtAudio program: bufferMaxSize = SAMPLE_RATE * CHANNELS * PERIOD.
bufferMaxSize == 4

\* Largest nBufferFrames / framesPerBuffer / frameCount a callback is given.
MaxFrames == 2
\* Most samples a run stores before the stream is left alone.
MaxSamples == 6
\* Most periodic saves of a run.
MaxSaves == 2
\* Most event-writer threads a run spawns.
MaxEvents == 2
\* Longest list passed to cross_correlate.
MaxLen == 3

\* Sample values the device delivers: silence, and a loud sample of either sign.
Samples == {0 - 30000, 0, 30000}

\* The sample values used where only the order of the samples matters.
Pcm == {0, 30000}

\* All delivered blocks of n frames (n * CHANNELS interleaved samples) over S.
Blocks(n, S) == [1..(n * CHANNELS) -> S]

\* ------------------------------------------------------------------------
\* Helpers
\* ------------------------------------------------------------------------
Abs(x) == IF x < 0 THEN 0 - x ELSE x

Min(a, b) == IF a < b THEN a ELSE b

Max(a, b) == IF a < b THEN b ELSE a

\* The first n elements of s (all of s when it is shorter).
Take(s, n) == SubSeq(s, 1, Min(n, Len(s)))

\* The last n elements of s (all of s when it is shorter).
LastN(s, n) == SubSeq(s, Max(1, Len(s) - n + 1), Len(s))

\* The elements of the array a (a function on 0..size-1) at the physical
\* positions from, from+1, ..., from+n-1, as a sequence.
Slice(a, from, n) == [i \in 1..n |-> a[from + i - 1]]

VARIABLES
  \* ---- Period-Only.cpp ----
  po_buffer,        \* std::vector<int16_t> buffer(BUFFER_SIZE * CHANNELS)
  po_bufferIndex,   \* unsigned int bufferIndex
  mtx,              \* std::mutex mtx: "free" or the name of its holder
  po_cb,            \* audioCallback: "idle", or "lock" (waiting in mtx.lock())
  po_data,          \* inputBuffer of the pending audioCallback
  po_nFrames,       \* nBufferFrames of the pending audioCallback
  po_main,          \* audioStream/saveAudio: "sleep", "open", "close"
  po_outfile,       \* samples sf_write_short wrote to the newest file
  po_saves,         \* number of files written
  po_hist,          \* history: every sample audioCallback stored, in order
  \* ---- Event-Only.cpp, circular-buffer program (lines 238-313) ----
  circularBuffer,   \* std::vector<short> circularBuffer(BUFFER_SIZE)
  circ_bufferIndex, \* int bufferIndex
  circ_main,        \* main: "streaming", "stopped", "saved", "closed"
  circ_written,     \* whether output.wav has been written
  circ_outfile,     \* the samples saveToFile wrote to output.wav
  circ_hist,        \* history: every sample recordCallback stored, in order
  \* ---- Recording.cpp, RtAudio program (lines 137-207) ----
  audioBuffer,      \* std::deque<int16_t> audioBuffer
  pcm_cb,           \* audioCallback: "idle" or "loop"
  pcm_ptr,          \* ptr: the inputBuffer of the running audioCallback
  pcm_i,            \* loop index i of the running audioCallback
  pcm_main,         \* audioStream: "sleep", "write" (in saveAudio's loop), "done"
  pcm_it,           \* saveAudio's iterator, as the absolute index it points at
  pcm_outfile,      \* the samples saveAudio wrote to output.pcm
  pcm_saves,        \* number of completed saveAudio calls
  pcm_hist,         \* history: every sample audioCallback pushed, in order
  pcm_views,        \* history: the values audioBuffer took during the running save
  \* ---- Recording.cpp, PortAudio program (lines 1-124) ----
  buffer,           \* std::deque<float> buffer
  bufferIndex,      \* std::atomic<int> bufferIndex
  dq_jobs,          \* the detached writer threads: [copied, pc, at, trigger]
  dq_file,          \* OUTPUT_DIRECTORY/event.wav: [exists, len, samples]
  dq_log,           \* history: the write count (samples pushed) at each spawn
  dq_aborted,       \* whether the process died of that heap overrun
  dq_hist,          \* history: every sample recordCallback pushed, in order
  dq_main,          \* main: "init", "join" (in checkLevelThread.join()), "stopped"
  \* ---- Event-Only.cpp, first program (lines 1-69) ----
  ev_buffer,         \* boost::circular_buffer<double> buffer
  buffer_index,      \* unsigned long buffer_index
  event_start_index, \* int event_start_index
  ev_threads,        \* the threads callback created: "sleeping" or "done" each
  ev_in,             \* in: the block of the latest callback
  ev_frames,         \* history: framesPerBuffer of every callback, in order
  \* ---- BMAR_cross_correlation.c ----
  xc_pc,             \* cross_correlate: "idle", "parsed", "returned"
  xc_signal1,        \* signal1, the first list argument
  xc_signal2,        \* signal2, the second list argument
  xc_result          \* the value returned: result_list, or "NULL"

varsPeriod == <<po_buffer, po_bufferIndex, mtx, po_cb, po_data, po_nFrames,
                po_main, po_outfile, po_saves, po_hist>>

varsCirc == <<circularBuffer, circ_bufferIndex, circ_main, circ_written,
              circ_outfile, circ_hist>>

varsPcm == <<audioBuffer, pcm_cb, pcm_ptr, pcm_i, pcm_main, pcm_it, pcm_outfile,
             pcm_saves, pcm_hist, pcm_views>>

varsDeque == <<buffer, bufferIndex, dq_jobs, dq_file, dq_log, dq_aborted,
               dq_hist, dq_main>>

varsEvent == <<ev_buffer, buffer_index, event_start_index, ev_threads, ev_in,
               ev_frames>>

varsXcorr == <<xc_pc, xc_signal1, xc_signal2, xc_result>>

vars == <<varsPeriod, varsCirc, varsPcm, varsDeque, varsEvent, varsXcorr>>

\* ------------------------------------------------------------------------
\* Period-Only.cpp
\* ------------------------------------------------------------------------
PoSize == PO_BUFFER_SIZE * CHANNELS

InitPeriod ==
  /\ po_buffer = [p \in 0..(PoSize - 1) |-> 0]
  /\ po_bufferIndex = 0
  /\ mtx = "free"
  /\ po_cb = "idle"
  /\ po_data = <<>>
  /\ po_nFrames = 0
  /\ po_main = "sleep"
  /\ po_outfile = <<>>
  /\ po_saves = 0
  /\ po_hist = <<>>

\* The loop of audioCallback: buffer[bufferIndex] = data[i];
\* bufferIndex = (bufferIndex + 1) % buffer.size(), for i < n.
\* Yields the pair <<buffer, bufferIndex>> after the loop.
RECURSIVE PoStore(_, _, _, _, _)
PoStore(buf, idx, data, i, n) ==
  IF i >= n THEN <<buf, idx>>
  ELSE PoStore([buf EXCEPT ![idx] = data[i + 1]], (idx + 1) % PoSize, data, i + 1, n)

\* The audio subsystem calls audioCallback with a block of n frames; the
\* callback's first statement is mtx.lock().
PoDeliver ==
  /\ po_cb = "idle"
  /\ \E n \in 1..MaxFrames :
       /\ Len(po_hist) + n <= MaxSamples
       /\ \E block \in Blocks(n, Pcm) :
            /\ po_data' = block
            /\ po_nFrames' = n
  /\ po_cb' = "lock"
  /\ UNCHANGED <<po_buffer, po_bufferIndex, mtx, po_main, po_outfile, po_saves, po_hist>>
  /\ UNCHANGED <<varsCirc, varsPcm, varsDeque, varsEvent, varsXcorr>>

\* audioCallback from the return of mtx.lock() to mtx.unlock().
PoAudioCallback ==
  /\ po_cb = "lock"
  /\ mtx = "free"
  /\ LET r == PoStore(po_buffer, po_bufferIndex, po_data, 0, po_nFrames)
     IN  /\ po_buffer' = r[1]
         /\ po_bufferIndex' = r[2]
  /\ po_hist' = po_hist \o Take(po_data, po_nFrames)
  /\ po_cb' = "idle"
  /\ UNCHANGED <<mtx, po_data, po_nFrames, po_main, po_outfile, po_saves>>
  /\ UNCHANGED <<varsCirc, varsPcm, varsDeque, varsEvent, varsXcorr>>

\* A slip of audioStream: saveAudio started on every tick of a timer, whether
\* or not the previous call has returned.
PoSaveLockOnTick ==
  /\ po_saves < MaxSaves
  /\ mtx' = "saveAudio"
  /\ po_main' = "open"
  /\ UNCHANGED <<po_buffer, po_bufferIndex, po_cb, po_data, po_nFrames,
                 po_outfile, po_saves, po_hist>>
  /\ UNCHANGED <<varsCirc, varsPcm, varsDeque, varsEvent, varsXcorr>>

\* audioStream: sleep_for(INTERVAL) is over, saveAudio() takes mtx.
PoSaveLock ==
  /\ po_main = "sleep"
  /\ po_saves < MaxSaves
  /\ mtx = "free"
  /\ mtx' = "saveAudio"
  /\ po_main' = "open"
  /\ UNCHANGED <<po_buffer, po_bufferIndex, po_cb, po_data, po_nFrames,
                 po_outfile, po_saves, po_hist>>
  /\ UNCHANGED <<varsCirc, varsPcm, varsDeque, varsEvent, varsXcorr>>

\* What saveAudio hands to sf_write_short: buffer.data(), buffer.size().
PoSaved(buf) == Slice(buf, 0, PoSize)

\* saveAudio: sf_open and sf_write_short, with mtx held.
PoSaveWrite ==
  /\ po_main = "open"
  /\ po_outfile' = PoSaved(po_buffer)
  /\ po_main' = "close"
  /\ UNCHANGED <<po_buffer, po_bufferIndex, mtx, po_cb, po_data, po_nFrames,
                 po_saves, po_hist>>
  /\ UNCHANGED <<varsCirc, varsPcm, varsDeque, varsEvent, varsXcorr>>

\* saveAudio: sf_close and mtx.unlock(); audioStream sleeps again.
PoSaveUnlock ==
  /\ po_main = "close"
  /\ mtx' = "free"
  /\ po_saves' = po_saves + 1
  /\ po_main' = "sleep"
  /\ UNCHANGED <<po_buffer, po_bufferIndex, po_cb, po_data, po_nFrames,
                 po_outfile, po_hist>>
  /\ UNCHANGED <<varsCirc, varsPcm, varsDeque, varsEvent, varsXcorr>>

NextPeriod ==
  \/ PoDeliver
  \/ PoAudioCallback
  \/ PoSaveLock
  \/ PoSaveWrite
  \/ PoSaveUnlock

\* ------------------------------------------------------------------------
\* Event-Only.cpp, circular-buffer program (lines 238-313)
\* ------------------------------------------------------------------------
InitCirc ==
  /\ circularBuffer = [p \in 0..(BUFFER_SIZE - 1) |-> 0]
  /\ circ_bufferIndex = 0
  /\ circ_main = "streaming"
  /\ circ_written = FALSE
  /\ circ_outfile = <<>>
  /\ circ_hist = <<>>

\* The loop of recordCallback: circularBuffer[bufferIndex] = *rptr++;
\* bufferIndex = (bufferIndex + 1) % BUFFER_SIZE, for i < n.
\* Yields the pair <<circularBuffer, bufferIndex>> after the loop.
RECURSIVE CircStore(_, _, _, _, _)
CircStore(buf, idx, rptr, i, n) ==
  IF i >= n THEN <<buf, idx>>
  ELSE CircStore([buf EXCEPT ![idx] = rptr[i + 1]], (idx + 1) % BUFFER_SIZE,
                 rptr, i + 1, n)

\* recordCallback, called by PortAudio while the stream runs (main is in
\* Pa_Sleep(5000)), with framesPerBuffer frames.
CircRecordCallback ==
  /\ circ_main = "streaming"
  /\ \E framesPerBuffer \in 1..MaxFrames :
       /\ Len(circ_hist) + framesPerBuffer * CHANNELS <= MaxSamples
       /\ \E inputBuffer \in Blocks(framesPerBuffer, Pcm) :
            LET r == CircStore(circularBuffer, circ_bufferIndex, inputBuffer, 0,
                               framesPerBuffer * CHANNELS)
            IN  /\ circularBuffer' = r[1]
                /\ circ_bufferIndex' = r[2]
                /\ circ_hist' = circ_hist \o inputBuffer
  /\ UNCHANGED <<circ_main, circ_written, circ_outfile>>
  /\ UNCHANGED <<varsPeriod, varsPcm, varsDeque, varsEvent, varsXcorr>>

\* main: Pa_Sleep(5000) returns and Pa_StopStream ends the callbacks.
CircStopStream ==
  /\ circ_main = "streaming"
  /\ circ_main' = "stopped"
  /\ UNCHANGED <<circularBuffer, circ_bufferIndex, circ_written, circ_outfile, circ_hist>>
  /\ UNCHANGED <<varsPeriod, varsPcm, varsDeque, varsEvent, varsXcorr>>

\* What saveToFile(start, end, filename) writes to the file.
saveToFile(buf, start, end) ==
  IF end >= start
  THEN Slice(buf, start, end - start)
  ELSE Slice(buf, start, BUFFER_SIZE - start) \o Slice(buf, 0, end)

\* main: saveToFile(0, bufferIndex, "output.wav").
CircSave ==
  /\ circ_main = "stopped"
  /\ circ_outfile' = saveToFile(circularBuffer, 0, circ_bufferIndex)
  /\ circ_written' = TRUE
  /\ circ_main' = "saved"
  /\ UNCHANGED <<circularBuffer, circ_bufferIndex, circ_hist>>
  /\ UNCHANGED <<varsPeriod, varsPcm, varsDeque, varsEvent, varsXcorr>>

\* main: Pa_CloseStream, Pa_Terminate, return 0.
CircClose ==
  /\ circ_main = "saved"
  /\ circ_main' = "closed"
  /\ UNCHANGED <<circularBuffer, circ_bufferIndex, circ_written, circ_outfile, circ_hist>>
  /\ UNCHANGED <<varsPeriod, varsPcm, varsDeque, varsEvent, varsXcorr>>

NextCirc ==
  \/ CircRecordCallback
  \/ CircStopStream
  \/ CircSave
  \/ CircClose

\* ------------------------------------------------------------------------
\* Recording.cpp, RtAudio program (lines 137-207)
\* ------------------------------------------------------------------------
InitPcm ==
  /\ audioBuffer = <<>>
  /\ pcm_cb = "idle"
  /\ pcm_ptr = <<>>
  /\ pcm_i = 0
  /\ pcm_main = "sleep"
  /\ pcm_it = 0
  /\ pcm_outfile = <<>>
  /\ pcm_saves = 0
  /\ pcm_hist = <<>>
  /\ pcm_views = {}

\* One iteration of audioCallback's loop on the deque: push_back(x), then
\* pop_front() if the size exceeds bufferMaxSize.
PcmPush(dq, x) ==
  LET pushed == Append(dq, x)
  IN  IF Len(pushed) > bufferMaxSize THEN Tail(pushed) ELSE pushed

\* RtAudio calls audioCallback with nBufferFrames frames: size and ptr are set.
PcmDeliver ==
  /\ pcm_cb = "idle"
  /\ \E nBufferFrames \in 1..MaxFrames :
       /\ Len(pcm_hist) + nBufferFrames * CHANNELS <= MaxSamples
       /\ \E inputBuffer \in Blocks(nBufferFrames, Pcm) : pcm_ptr' = inputBuffer
  /\ pcm_i' = 0
  /\ pcm_cb' = "loop"
  /\ UNCHANGED <<audioBuffer, pcm_main, pcm_it, pcm_outfile, pcm_saves, pcm_hist,
                 pcm_views>>
  /\ UNCHANGED <<varsPeriod, varsCirc, varsDeque, varsEvent, varsXcorr>>

\* audioCallback: one iteration of the loop, and the return after the last.
\* The deque is not locked: the iteration may fall between two steps of a
\* running saveAudio.
PcmCallbackStep ==
  /\ pcm_cb = "loop"
  /\ audioBuffer' = PcmPush(audioBuffer, pcm_ptr[pcm_i + 1])
  /\ pcm_hist' = Append(pcm_hist, pcm_ptr[pcm_i + 1])
  /\ pcm_i' = pcm_i + 1
  /\ pcm_cb' = IF pcm_i + 1 >= Len(pcm_ptr) THEN "idle" ELSE "loop"
  /\ pcm_views' = IF pcm_main = "write" THEN pcm_views \cup {audioBuffer'} ELSE pcm_views
  /\ UNCHANGED <<pcm_ptr, pcm_main, pcm_it, pcm_outfile, pcm_saves>>
  /\ UNCHANGED <<varsPeriod, varsCirc, varsDeque, varsEvent, varsXcorr>>

\* The absolute index of audioBuffer.front() (of end(), when the deque is empty).
PcmFront == Len(pcm_hist) - Len(audioBuffer)

\* audioStream: sleep_for(PERIOD) is over; saveAudio opens output.pcm
\* (truncating it) and takes audioBuffer.begin().
PcmSaveBegin ==
  /\ pcm_main = "sleep"
  /\ pcm_saves < MaxSaves
  /\ pcm_outfile' = <<>>
  /\ pcm_it' = PcmFront
  /\ pcm_views' = {audioBuffer}
  /\ pcm_main' = "write"
  /\ UNCHANGED <<audioBuffer, pcm_cb, pcm_ptr, pcm_i, pcm_saves, pcm_hist>>
  /\ UNCHANGED <<varsPeriod, varsCirc, varsDeque, varsEvent, varsXcorr>>

\* The values a read through saveAudio's iterator can yield: the element, or,
\* when audioCallback has popped it meanwhile (a data race on the deque, which
\* the language leaves undefined), whatever the freed slot holds.
PcmRead(it) ==
  IF it >= PcmFront THEN {pcm_hist[it + 1]} ELSE Pcm

\* saveAudio: one iteration of the range-for: write *it, ++it.
PcmSaveStep ==
  /\ pcm_main = "write"
  /\ pcm_it # Len(pcm_hist)
  /\ \E sample \in PcmRead(pcm_it) : pcm_outfile' = Append(pcm_outfile, sample)
  /\ pcm_it' = pcm_it + 1
  /\ UNCHANGED <<audioBuffer, pcm_cb, pcm_ptr, pcm_i, pcm_main, pcm_saves, pcm_hist,
                 pcm_views>>
  /\ UNCHANGED <<varsPeriod, varsCirc, varsDeque, varsEvent, varsXcorr>>

\* saveAudio: the iterator equals end(): outFile.close().
PcmSaveClose ==
  /\ pcm_main = "write"
  /\ pcm_it = Len(pcm_hist)
  /\ pcm_saves' = pcm_saves + 1
  /\ pcm_main' = "done"
  /\ UNCHANGED <<audioBuffer, pcm_cb, pcm_ptr, pcm_i, pcm_it, pcm_outfile, pcm_hist,
                 pcm_views>>
  /\ UNCHANGED <<varsPeriod, varsCirc, varsDeque, varsEvent, varsXcorr>>

\* audioStream: sleep_for(INTERVAL - PERIOD), then sleep_for(PERIOD) again.
PcmSleep ==
  /\ pcm_main = "done"
  /\ pcm_main' = "sleep"
  /\ UNCHANGED <<audioBuffer, pcm_cb, pcm_ptr, pcm_i, pcm_it, pcm_outfile, pcm_saves,
                 pcm_hist, pcm_views>>
  /\ UNCHANGED <<varsPeriod, varsCirc, varsDeque, varsEvent, varsXcorr>>

NextPcm ==
  \/ PcmDeliver
  \/ PcmCallbackStep
  \/ PcmSaveBegin
  \/ PcmSaveStep
  \/ PcmSaveClose
  \/ PcmSleep

\* C3 (as claimed, on the RtAudio program): a save that runs while the audio
\* callback keeps appending writes the contents the buffer had at one single
\* instant of the save.
C3_NoTornSnapshot ==
  pcm_main = "done" => pcm_outfile \in pcm_views

\* ------------------------------------------------------------------------
\* Recording.cpp, PortAudio program (lines 1-124)
\* ------------------------------------------------------------------------
\* The deque's capacity, SAMPLE_RATE * BUFFER_SECONDS samples.
DqCapacity == SAMPLE_RATE * BUFFER_SECONDS

\* The size of checkLevelThreadFunc's data allocation, and of every file.
DqDataLen == SAMPLE_RATE * (SAVE_BEFORE_EVENT + SAVE_AFTER_EVENT)

InitDeque ==
  /\ buffer = <<>>
  /\ bufferIndex = 0
  /\ dq_jobs = <<>>
  /\ dq_file = [exists |-> FALSE, len |-> 0, samples |-> <<>>]
  /\ dq_log = <<>>
  /\ dq_aborted = FALSE
  /\ dq_hist = <<>>
  /\ dq_main = "init"

\* main: Pa_Initialize, Pa_OpenStream, Pa_StartStream, the start of
\* checkLevelThread, and the call of checkLevelThread.join().  The join returns
\* when checkLevelThreadFunc does, and its while (true) has no exit: no step
\* takes main on to Pa_StopStream and Pa_Terminate ("stopped").
DqMainStart ==
  /\ dq_main = "init"
  /\ dq_main' = "join"
  /\ UNCHANGED <<buffer, bufferIndex, dq_jobs, dq_file, dq_log, dq_aborted, dq_hist>>
  /\ UNCHANGED <<varsPeriod, varsCirc, varsPcm, varsEvent, varsXcorr>>

\* recordCallback's loop: push_back(*in++), pop_front() when the size exceeds
\* SAMPLE_RATE * BUFFER_SECONDS, for i < frameCount.
RECURSIVE DqPush(_, _, _, _)
DqPush(dq, in, i, frameCount) ==
  IF i >= frameCount THEN dq
  ELSE LET pushed == Append(dq, in[i + 1])
       IN  DqPush(IF Len(pushed) > DqCapacity THEN Tail(pushed) ELSE pushed,
                  in, i + 1, frameCount)

\* A slip of recordCallback's wrap test: > in place of >=.
DqNextIndexLate(idx, frameCount) ==
  IF idx + frameCount > DqCapacity
  THEN idx + frameCount - DqCapacity
  ELSE idx + frameCount

\* recordCallback: bufferIndex += frameCount, and one subtraction of the
\* capacity when that reaches it.
DqNextIndex(idx, frameCount) ==
  IF idx + frameCount >= DqCapacity
  THEN idx + frameCount - DqCapacity
  ELSE idx + frameCount

\* recordCallback, all of it under bufferMutex.
DqRecordCallback ==
  /\ dq_main = "join"
  /\ ~dq_aborted
  /\ \E frameCount \in 1..MaxFrames :
       /\ Len(dq_hist) + frameCount <= MaxSamples
       /\ \E input \in Blocks(frameCount, Pcm) :
            /\ buffer' = DqPush(buffer, input, 0, frameCount)
            /\ bufferIndex' = DqNextIndex(bufferIndex, frameCount)
            /\ dq_hist' = dq_hist \o Take(input, frameCount)
  /\ UNCHANGED <<dq_jobs, dq_file, dq_log, dq_aborted, dq_main>>
  /\ UNCHANGED <<varsPeriod, varsCirc, varsPcm, varsEvent, varsXcorr>>

\* The largest element of a non-empty sequence (std::max_element: signed
\* comparison, no absolute value).
RECURSIVE MaxElement(_)
MaxElement(s) ==
  IF Len(s) = 1 THEN s[1] ELSE Max(s[1], MaxElement(Tail(s)))

\* The values *std::max_element(buffer.begin(), buffer.end()) can yield: on an
\* empty deque it dereferences end(), which is undefined: any value.
DqLevel(dq) == IF dq = <<>> THEN Pcm ELSE {MaxElement(dq)}

\* The two std::copy calls: buffer[bufferIndex, end) and then
\* buffer[begin, bufferIndex), one after the other into data.
DqRotated(dq, idx) ==
  SubSeq(dq, Min(idx, Len(dq)) + 1, Len(dq)) \o SubSeq(dq, 1, Min(idx, Len(dq)))

\* What the copies leave in data: the copied samples, cut at the allocation's
\* size; the rest of the allocation (new float[...]) stays uninitialised.
DqCopied(dq, idx) == Take(DqRotated(dq, idx), DqDataLen)

\* What sf_write_float(outfile, data, size) puts in the file: size elements,
\* of which only the copied ones are determined (samples); the others are
\* read from uninitialised memory.
DqWritten(copied, size) == [exists |-> TRUE, len |-> size, samples |-> copied]

\* Whether some std::copy so far has written past the end of data: the deque
\* held more than the allocation at a spawn (history, from dq_log).
DqOverrun ==
  \E k \in 1..Len(dq_log) : Min(dq_log[k], DqCapacity) > DqDataLen

\* The absolute index of the first sample of the deque above the threshold,
\* -1 when there is none (history, for the claims: the code keeps no index).
DqTrigger ==
  LET front == Len(dq_hist) - Len(buffer)
      hits == {i \in 1..Len(buffer) : buffer[i] > THRESHOLD}
  IN  IF hits = {} THEN 0 - 1
      ELSE front - 1 + CHOOSE i \in hits : \A j \in hits : i <= j

\* checkLevelThreadFunc: one pass of the loop after sleep_for(100 ms), under
\* bufferMutex: scan, and on a hit copy the deque into data and hand it to a
\* new detached writer thread.  Copying more than the allocation holds is a
\* heap overrun: the process either dies or goes on.
DqCheckLevel ==
  /\ dq_main = "join"
  /\ ~dq_aborted
  /\ Len(dq_log) < MaxEvents
  /\ \E level \in DqLevel(buffer) :
       /\ level > THRESHOLD
       /\ dq_jobs' = Append(dq_jobs, [copied |-> DqCopied(buffer, bufferIndex),
                                      pc |-> "spawned", at |-> Len(dq_hist),
                                      trigger |-> DqTrigger])
       /\ dq_log' = Append(dq_log, Len(dq_hist))
       /\ \/ dq_aborted' = FALSE
          \/ /\ Len(buffer) > DqDataLen
             /\ dq_aborted' = TRUE
  /\ UNCHANGED <<buffer, bufferIndex, dq_file, dq_hist, dq_main>>
  /\ UNCHANGED <<varsPeriod, varsCirc, varsPcm, varsEvent, varsXcorr>>

\* writeWavFile in a writer thread: sf_open(filename, SFM_WRITE) creates or
\* truncates event.wav.
DqJobOpen ==
  /\ ~dq_aborted
  /\ \E j \in 1..Len(dq_jobs) :
       /\ dq_jobs[j].pc = "spawned"
       /\ dq_jobs' = [dq_jobs EXCEPT ![j].pc = "open"]
  /\ dq_file' = [exists |-> TRUE, len |-> 0, samples |-> <<>>]
  /\ UNCHANGED <<buffer, bufferIndex, dq_log, dq_aborted, dq_hist, dq_main>>
  /\ UNCHANGED <<varsPeriod, varsCirc, varsPcm, varsEvent, varsXcorr>>

\* writeWavFile: sf_write_float(outfile, data, size), size being the whole
\* allocation, from the start of the file.
DqJobWrite ==
  /\ ~dq_aborted
  /\ \E j \in 1..Len(dq_jobs) :
       /\ dq_jobs[j].pc = "open"
       /\ dq_jobs' = [dq_jobs EXCEPT ![j].pc = "written"]
       /\ dq_file' = DqWritten(dq_jobs[j].copied, DqDataLen)
  /\ UNCHANGED <<buffer, bufferIndex, dq_log, dq_aborted, dq_hist, dq_main>>
  /\ UNCHANGED <<varsPeriod, varsCirc, varsPcm, varsEvent, varsXcorr>>

\* writeWavFile: sf_close; the thread deletes data and ends.
DqJobClose ==
  /\ ~dq_aborted
  /\ \E j \in 1..Len(dq_jobs) :
       /\ dq_jobs[j].pc = "written"
       /\ dq_jobs' = SubSeq(dq_jobs, 1, j - 1) \o SubSeq(dq_jobs, j + 1, Len(dq_jobs))
  /\ UNCHANGED <<buffer, bufferIndex, dq_file, dq_log, dq_aborted,
                 dq_hist, dq_main>>
  /\ UNCHANGED <<varsPeriod, varsCirc, varsPcm, varsEvent, varsXcorr>>

NextDeque ==
  \/ DqMainStart
  \/ DqRecordCallback
  \/ DqCheckLevel
  \/ DqJobOpen
  \/ DqJobWrite
  \/ DqJobClose

\* ------------------------------------------------------------------------
\* Event-Only.cpp, first program (lines 1-69)
\* ------------------------------------------------------------------------
\* The capacity of buffer, BUFFER_SECONDS * SAMPLE_RATE * CHANNELS samples.
EvCapacity == BUFFER_SECONDS * SAMPLE_RATE * CHANNELS

InitEvent ==
  /\ ev_buffer = <<>>
  /\ buffer_index = 0
  /\ event_start_index = 0 - 1
  /\ ev_threads = <<>>
  /\ ev_in = <<>>
  /\ ev_frames = <<>>

\* callback's first loop: buffer.push_back(in[i * CHANNELS + j]) for every
\* frame i and channel j; a full circular_buffer drops its oldest element.
RECURSIVE EvPush(_, _, _, _)
EvPush(cb, in, k, n) ==
  IF k >= n THEN cb
  ELSE LET pushed == Append(cb, in[k + 1])
       IN  EvPush(IF Len(pushed) > EvCapacity THEN Tail(pushed) ELSE pushed,
                  in, k + 1, n)

\* callback's second loop: whether some i < framesPerBuffer has
\* std::abs(in[i]) > THRESHOLD.
EvLevelHit(in, framesPerBuffer) ==
  \E i \in 0..(framesPerBuffer - 1) : Abs(in[i + 1]) > THRESHOLD

\* A slip of callback's last statement: = in place of +=.
EvNextIndexAssigned(idx, framesPerBuffer) == framesPerBuffer

\* callback: buffer_index += framesPerBuffer.
EvNextIndex(idx, framesPerBuffer) == idx + framesPerBuffer

\* callback, called by PortAudio with framesPerBuffer frames.  The first hit
\* of the scan, if event_start_index is still -1, records buffer_index and
\* creates the save thread; later hits of the same scan find it set.
callback ==
  /\ \E framesPerBuffer \in 1..MaxFrames :
       /\ (buffer_index + framesPerBuffer) * CHANNELS <= MaxSamples
       /\ \E in \in Blocks(framesPerBuffer, Samples) :
            /\ ev_in' = in
            /\ ev_buffer' = EvPush(ev_buffer, in, 0, framesPerBuffer * CHANNELS)
            /\ IF EvLevelHit(in, framesPerBuffer) /\ event_start_index = 0 - 1
               THEN /\ event_start_index' = buffer_index
                    /\ ev_threads' = Append(ev_threads, "sleeping")
               ELSE UNCHANGED <<event_start_index, ev_threads>>
            /\ buffer_index' = EvNextIndex(buffer_index, framesPerBuffer)
            /\ ev_frames' = Append(ev_frames, framesPerBuffer)
  /\ UNCHANGED <<varsPeriod, varsCirc, varsPcm, varsDeque, varsXcorr>>

\* save_audio_around_event in a save thread: sleep_for(save_after_event
\* seconds), then save_event_audio(), whose body is empty; the thread ends.
save_audio_around_event ==
  /\ \E t \in 1..Len(ev_threads) :
       /\ ev_threads[t] = "sleeping"
       /\ ev_threads' = [ev_threads EXCEPT ![t] = "done"]
  /\ UNCHANGED <<ev_buffer, buffer_index, event_start_index, ev_in, ev_frames>>
  /\ UNCHANGED <<varsPeriod, varsCirc, varsPcm, varsDeque, varsXcorr>>

NextEvent ==
  \/ callback
  \/ save_audio_around_event

\* ------------------------------------------------------------------------
\* BMAR_cross_correlation.c
\* ------------------------------------------------------------------------
\* The numbers the lists hold: small integers, whose products and sums the
\* doubles of the C code represent exactly.
XcValues == {0 - 1, 0, 1, 2}

\* The lists a caller passes: every list of at most MaxLen numbers.
XcLists == UNION {[1..len -> XcValues] : len \in 0..MaxLen}

InitXcorr ==
  /\ xc_pc = "idle"
  /\ xc_signal1 = <<>>
  /\ xc_signal2 = <<>>
  /\ xc_result = [null |-> FALSE, list |-> <<>>]

\* Whether PyList_GetItem(list, i) yields an item; it yields NULL (and sets
\* IndexError) when i is out of range.
PyList_GetItem_ok(list, i) == 0 <= i /\ i < Len(list)

\* The inner loop (lines 28-40) from k on, sum being the sum so far:
\* [ok, sum], ok being FALSE when an item was NULL.
RECURSIVE XcInner(_, _, _, _, _)
XcInner(signal1, signal2, lag, k, sum) ==
  IF k < Len(signal1) /\ lag - k >= 0
  THEN IF PyList_GetItem_ok(signal1, k) /\ PyList_GetItem_ok(signal2, lag - k)
       THEN XcInner(signal1, signal2, lag, k + 1,
                    sum + signal1[k + 1] * signal2[lag - k + 1])
       ELSE [ok |-> FALSE, sum |-> sum]
  ELSE [ok |-> TRUE, sum |-> sum]

\* cross_correlate(signal1, signal2): the list it returns, or NULL when
\* PyList_New fails (n < 0) or an item was NULL.
cross_correlate(signal1, signal2) ==
  LET n1 == Len(signal1)
      n2 == Len(signal2)
      n == n1 + n2 - 1
      sums == [lag \in 0..(n - 1) |->
                 XcInner(signal1, signal2, lag, Max(0, lag - n2 + 1), 0)]
  IN  IF n < 0 \/ \E lag \in 0..(n - 1) : ~sums[lag].ok
      THEN [null |-> TRUE, list |-> <<>>]
      ELSE [null |-> FALSE, list |-> [i \in 1..n |-> sums[i - 1].sum]]

\* A Python caller calls cross_correlate with two lists: PyArg_ParseTuple.
XcCall ==
  /\ xc_pc = "idle"
  /\ \E signal1 \in XcLists, signal2 \in XcLists :
       /\ xc_signal1' = signal1
       /\ xc_signal2' = signal2
  /\ xc_pc' = "parsed"
  /\ UNCHANGED xc_result
  /\ UNCHANGED <<varsPeriod, varsCirc, varsPcm, varsDeque, varsEvent>>

\* cross_correlate from PyList_Size to its return.
XcCompute ==
  /\ xc_pc = "parsed"
  /\ xc_result' = cross_correlate(xc_signal1, xc_signal2)
  /\ xc_pc' = "returned"
  /\ UNCHANGED <<xc_signal1, xc_signal2>>
  /\ UNCHANGED <<varsPeriod, varsCirc, varsPcm, varsDeque, varsEvent>>

NextXcorr ==
  \/ XcCall
  \/ XcCompute

\* The reference cross-correlation of s1 and s2 at a lag: the sum, over the k
\* from k0 on with 0 <= k < Len(s1) and 0 <= k - lag < Len(s2), of
\* s1[k] * s2[k - lag] (indices from 0).
RECURSIVE XcReference(_, _, _, _)
XcReference(s1, s2, lag, k0) ==
  IF k0 >= Len(s1) THEN 0
  ELSE (IF 0 <= k0 - lag /\ k0 - lag < Len(s2)
        THEN s1[k0 + 1] * s2[k0 - lag + 1] ELSE 0)
       + XcReference(s1, s2, lag, k0 + 1)

\* C22 (as claimed): for lists of lengths n1, n2 >= 1 cross_correlate returns
\* a list (no access was out of bounds) of n1 + n2 - 1 entries, and entry i
\* is the reference cross-correlation at lag i - (n2 - 1).
C22_CrossCorrelation ==
  (xc_pc = "returned" /\ Len(xc_signal1) >= 1 /\ Len(xc_signal2) >= 1)
    => LET n1 == Len(xc_signal1)
           n2 == Len(xc_signal2)
       IN  /\ ~xc_result.null
           /\ Len(xc_result.list) = n1 + n2 - 1
           /\ \A i \in 0..(n1 + n2 - 2) :
                xc_result.list[i + 1]
                  = XcReference(xc_signal1, xc_signal2, i - (n2 - 1), 0)

\* Pre-roll and post-roll of an event, in samples.
PreRoll == SAMPLE_RATE * SAVE_BEFORE_EVENT

PostRoll == SAMPLE_RATE * SAVE_AFTER_EVENT

\* h is silence, then 3 * PostRoll samples above the threshold, then silence.
OneBurst(h) ==
  \E a \in 1..Len(h) :
    /\ a + 3 * PostRoll - 1 <= Len(h)
    /\ \A i \in 1..Len(h) :
         (Abs(h[i]) > THRESHOLD) <=> (a <= i /\ i <= a + 3 * PostRoll - 1)

\* C5 (as claimed, on the PortAudio program): a signal that stays above the
\* threshold for 3 x post_roll samples, silent before and after, produces no
\* more than one event (detections on a deque that holds samples).
C5_OneEventPerBurst ==
  OneBurst(dq_hist) => Cardinality({k \in 1..Len(dq_log) : dq_log[k] > 0}) <= 1

\* C8 (as claimed, on the PortAudio program): the copy of an event's window is
\* made only when write_cursor >= trigger_index + post_roll_samples.
C8_ExtractAfterPostRoll ==
  \A j \in 1..Len(dq_jobs) :
    dq_jobs[j].trigger >= 0 => dq_jobs[j].at >= dq_jobs[j].trigger + PostRoll

\* C7 (as claimed, on the PortAudio program): the buffer handed to the writer
\* for a trigger at T is the frames max(0, T - P) .. T + Q of the recording, in
\* order (stated for the events with a full pre-roll behind them, T >= P, that
\* were copied after their post-roll was captured).
C7_EventWindow ==
  \A j \in 1..Len(dq_jobs) :
    LET T == dq_jobs[j].trigger
        window == SubSeq(dq_hist, Max(0, T - PreRoll) + 1, T + PostRoll)
    IN  (T >= PreRoll /\ dq_jobs[j].at >= T + PostRoll)
          => (DqDataLen = Len(window) /\ dq_jobs[j].copied = window)

RECURSIVE SumSeq(_)
SumSeq(s) == IF s = <<>> THEN 0 ELSE s[1] + SumSeq(Tail(s))

Crossings(in) == {i \in 1..Len(in) : Abs(in[i]) > THRESHOLD}

\* C9 (as claimed, on the first Event-Only program): a callback that finds the
\* detector armed reports a trigger iff some sample of the block, of any
\* channel, exceeds the threshold in absolute value, and the index it records
\* is that of the first such sample (as a sample or as a frame index).
C9_TriggerAtFirstCrossing ==
  [][(ev_frames' # ev_frames /\ event_start_index = 0 - 1) =>
       LET hits == Crossings(ev_in')
           first == CHOOSE i \in hits : \A j \in hits : i <= j
       IN  /\ (hits = {}) <=> (event_start_index' = 0 - 1)
           /\ hits # {} =>
                \/ event_start_index' = buffer_index * CHANNELS + first - 1
                \/ event_start_index' = buffer_index + ((first - 1) \div CHANNELS)
    ]_vars

\* C6 (as claimed, on the first Event-Only program): once an event's post-roll
\* has elapsed and its save thread has finished, a callback whose first sample
\* exceeds the threshold creates a new event.
C6_DetectorRearms ==
  [][(/\ ev_frames' # ev_frames
      /\ event_start_index # 0 - 1
      /\ buffer_index >= event_start_index + PostRoll
      /\ \A t \in 1..Len(ev_threads) : ev_threads[t] = "done"
      /\ Abs(ev_in'[1]) > THRESHOLD)
       => Len(ev_threads') = Len(ev_threads) + 1
    ]_vars

\* C2 (as claimed, on the circular-buffer program): main asks for the audio
\* from the start of the stream (index 0) up to the write position; once more
\* than BUFFER_SIZE samples have been stored, index 0 is older than
\* write_cursor - C, so the request fails and no samples are written.
C2_SnapshotRangeValidated ==
  (circ_main \in {"saved", "closed"} /\ Len(circ_hist) > BUFFER_SIZE)
    => ~circ_written

\* C1 (as claimed, on Period-Only.cpp): once at least a full buffer of samples
\* has been stored, the file saveAudio writes holds exactly the buffer.size()
\* most recently stored samples, oldest first.
C1_WraparoundSave ==
  (po_main = "close" /\ Len(po_hist) >= PoSize)
    => po_outfile = LastN(po_hist, PoSize)

\* C4 (as claimed, on Period-Only.cpp): whenever saveAudio is in the middle of
\* its file I/O and the audio subsystem has delivered a block, the callback's
\* append step is enabled (it does not wait for a lock the saver holds).
C4_ProducerNeverBlocked ==
  (po_main \in {"open", "close"} /\ po_cb = "lock") => ENABLED PoAudioCallback

\* C11 (as claimed, on Period-Only.cpp): a callback that is given nBufferFrames
\* frames of CHANNELS channels stores all nBufferFrames * CHANNELS samples of
\* the block, in order, and the write index advances by that many.
C11_WholeFramesAppended ==
  [][(po_cb = "lock" /\ po_cb' = "idle") =>
       /\ po_hist' = po_hist \o po_data
       /\ po_bufferIndex' = (po_bufferIndex + po_nFrames * CHANNELS) % PoSize
    ]_vars

\* C12 (as claimed, on the PortAudio program): no writer job is produced for an
\* event whose first required sample, max(0, T - P), is older than
\* write_cursor - C when its window is copied (the event is dropped instead).
C12_UnderrunDropsEvent ==
  \A j \in 1..Len(dq_jobs) :
    LET first == Max(0, dq_jobs[j].trigger - PreRoll)
    IN  dq_jobs[j].trigger >= 0 => first >= dq_jobs[j].at - DqCapacity

\* C13 (as claimed, on the first Event-Only program): an event does not outlive
\* its worker: once the save thread of the event has ended, the event has been
\* saved or dropped and then destroyed, so no event is pending any more
\* (event_start_index is -1 again).
C13_EventLifecycle ==
  (ev_threads # <<>> /\ \A t \in 1..Len(ev_threads) : ev_threads[t] = "done")
    => event_start_index = 0 - 1

\* C14 (as claimed, on the PortAudio program): the writer jobs pending at one
\* time never exceed a fixed bound, however many events are detected: their
\* number stays below the number of detections a run may make.
\* (jobs spawned for a sample that is in the buffer).
C14_BoundedJobQueue ==
  Cardinality({j \in 1..Len(dq_jobs) : dq_jobs[j].trigger >= 0}) < MaxEvents

\* C15 (as claimed, on the PortAudio program, where every job's destination is
\* OUTPUT_DIRECTORY/event.wav): at most one writer thread at a time is between
\* its sf_open and its sf_close of that path (jobs spawned for a sample that is
\* in the buffer).
C15_OneWriterPerDestination ==
  Cardinality({j \in 1..Len(dq_jobs) : /\ dq_jobs[j].trigger >= 0
                                       /\ dq_jobs[j].pc \in {"open", "written"}}) <= 1

\* C16 (on Period-Only.cpp): at most one periodic save is in flight: saveAudio
\* runs exactly while mtx is held for it, and a save begins only from
\* audioStream's sleep, after the previous save has returned and released mtx.
C16_OneSaveInFlight ==
  /\ [](mtx = "saveAudio" <=> po_main \in {"open", "close"})
  /\ [][(po_main' = "open" /\ po_main # "open")
         => (po_main = "sleep" /\ mtx = "free")]_vars

\* C16 witness: a second save is in flight after the first one completed.
C16_Witness ==
  po_saves >= 1 /\ po_main = "open" /\ mtx = "saveAudio"

\* C17 (as claimed, on Period-Only.cpp): the file of a periodic save holds, for
\* some duration d of at most the capacity, exactly the d most recently stored
\* samples, in the order they were stored.
C17_PeriodicSnapshotContent ==
  (po_main = "close" /\ po_hist # <<>>)
    => \E d \in 1..PoSize : d <= Len(po_hist) /\ po_outfile = LastN(po_hist, d)

\* C18 (as claimed, on the PortAudio program): the run that went from stopped
\* to streaming eventually comes back to stopped: main gets past its wait for
\* the worker thread, stops the stream and terminates (stated for the runs
\* that never detect an event, which have no writer job to wait for).
C18_ReachesStopped ==
  [](dq_log = <<>>) => <>(dq_main = "stopped")

\* C19 (as claimed, on the PortAudio program): at every moment, and so
\* wherever a writer fails or the process dies, event.wav either does not
\* exist or is a complete file of a job, all SAMPLE_RATE * (SAVE_BEFORE_EVENT +
\* SAVE_AFTER_EVENT) samples of it (runs whose detections were all made on a
\* buffer that holds samples).
C19_AllOrNothing ==
  (dq_file.exists /\ \A k \in 1..Len(dq_log) : dq_log[k] > 0)
    => dq_file.len = DqDataLen

\* C20 (as claimed, on the RtAudio program): a step of the consumer (saveAudio)
\* leaves the buffer as it is, and the consumer works on a copy of its own: what
\* a running save has left to write, from its iterator to the end, does not
\* grow with the samples the callback appends meanwhile.
C20_ReadersUseOwnCopy ==
  /\ [][<<pcm_main, pcm_it, pcm_outfile, pcm_saves>>'
           # <<pcm_main, pcm_it, pcm_outfile, pcm_saves>>
         => UNCHANGED <<audioBuffer, pcm_hist>>]_vars
  /\ [][(pcm_main = "write" /\ pcm_main' = "write")
         => Len(pcm_hist') - pcm_it' <= Len(pcm_hist) - pcm_it]_vars

\* C21 (as claimed, on the circular-buffer program): for every start and end
\* in [0, BUFFER_SIZE), saveToFile writes the (end - start) mod BUFFER_SIZE
\* samples at the physical positions start, start + 1, ... (mod BUFFER_SIZE),
\* in that order; and main's saveToFile(0, bufferIndex) saves all the audio
\* recorded since the stream started, also after the buffer has wrapped (read
\* in the claim's favour: all of it that the buffer can still hold).
C21_SaveToFileWraps ==
  /\ \A start, end \in 0..(BUFFER_SIZE - 1) :
       saveToFile(circularBuffer, start, end)
         = [i \in 1..((end - start + BUFFER_SIZE) % BUFFER_SIZE)
              |-> circularBuffer[(start + i - 1) % BUFFER_SIZE]]
  /\ circ_main \in {"saved", "closed"}
       => circ_outfile = LastN(circ_hist, BUFFER_SIZE)

\* C23 (on the PortAudio program): after every callback the write index lies
\* in [0, C) and is the number of samples appended so far mod C, and the deque
\* holds min(samples appended, C) samples, C being SAMPLE_RATE * BUFFER_SECONDS.
C23_IndexAndSize ==
  /\ bufferIndex \in 0..(DqCapacity - 1)
  /\ bufferIndex = Len(dq_hist) % DqCapacity
  /\ Len(buffer) = Min(Len(dq_hist), DqCapacity)

\* C23 witness: the buffer is full and the index has wrapped past 0.
C23_Witness ==
  /\ Len(dq_hist) = DqCapacity + 1
  /\ Len(buffer) = DqCapacity
  /\ bufferIndex = 1

\* C24 (as claimed, on the PortAudio program): bufferIndex <= buffer.size()
\* whenever checkLevelThreadFunc may copy, and at every copy made the number of
\* elements written into data, buffer.size(), is at most the allocation of
\* SAMPLE_RATE * (SAVE_BEFORE_EVENT + SAVE_AFTER_EVENT) elements (the copies
\* made on a buffer that holds samples; a scan of the empty buffer is
\* undefined already).
C24_CopyInsideData ==
  /\ bufferIndex <= Len(buffer)
  /\ \A k \in 1..Len(dq_log) :
       dq_log[k] > 0 => Min(dq_log[k], DqCapacity) <= DqDataLen

Init == InitPeriod /\ InitCirc /\ InitPcm /\ InitDeque /\ InitEvent /\ InitXcorr

SpecPeriod == Init /\ [][NextPeriod]_vars

SpecCirc == Init /\ [][NextCirc]_vars

SpecPcm == Init /\ [][NextPcm]_vars

SpecDeque == Init /\ [][NextDeque]_vars

SpecEvent == Init /\ [][NextEvent]_vars

SpecXcorr == Init /\ [][NextXcorr]_vars

\* The PortAudio program with its threads scheduled fairly: main, the
\* level-check thread and every writer thread keep taking their steps.  The
\* device's delivery of blocks is input, and is not required to go on.
SpecDequeFair ==
  /\ SpecDeque
  /\ WF_vars(DqMainStart)
  /\ WF_vars(DqCheckLevel)
  /\ WF_vars(DqJobOpen)
  /\ WF_vars(DqJobWrite)
  /\ WF_vars(DqJobClose)

====
